---------------------------- MODULE Spec2Model ----------------------------
(***************************************************************************)
(* Presence-aware message relay (WebSocket chat server).                   *)
(*                                                                         *)
(* The model follows the relay in src/unnamed/part_000: the three maps     *)
(* activeConnections, offlineMessages and userStatus, the per-connection   *)
(* heartbeat interval, the hourly cleanup interval and the global ping     *)
(* interval.  Node runs every handler to completion, so each handler is    *)
(* one atomic action.  Time is counted in units of half the expiry window  *)
(* (12 h), so MESSAGE_EXPIRY is 2 units; timers fire at any moment.        *)
(*                                                                         *)
(* A connection is a record of the fields the `ws` library keeps for it:   *)
(* readyState (OPEN, CLOSING, CLOSED), whether its socket still carries    *)
(* inbound frames, the isAlive flag and whether its heartbeat interval is  *)
(* still set.  ws.send on an OPEN socket returns normally; a transport     *)
(* failure of a send is reported later, as the connection's 'error' event. *)
(* A peer that is gone simply produces no further frame and no pong.       *)
(***************************************************************************)
EXTENDS Integers, Sequences, FiniteSets, TLC

\* ------------------------------------------------------------ bounds
MaxConns == 2        \* connections accepted in one run
MaxTime  == 3        \* the clock runs from 1 to MaxTime
MaxMsgs  == 2        \* well-formed chat messages sent in one run
MaxSockets == 2      \* connections accepted by an auth-based relay
MaxPending == 2      \* verification requests in flight at one time
MaxIoSockets == 3    \* sockets accepted by the notification server

\* ------------------------------------------------- program constants
MESSAGE_EXPIRY == 2  \* 24 h, in units of 12 h
Null == 0 - 1        \* JavaScript null for lastSeen

Users    == {"alice", "bob"}
NoUser   == ""       \* absent or empty username / receiver
NoContent == 0       \* absent or empty content (falsy)

VARIABLES
  activeConnections, \* Map username -> ws, in insertion order
  offlineMessages,   \* Map username -> [messages]
  userStatus,        \* Map username -> { lastSeen, status }
  conns,             \* the WebSocket objects accepted so far, by id
  now,               \* Date.now()
  serial,            \* well-formed chat messages handled so far; the k-th
                     \* one carries content k, so contents tell entries apart
  lastUserList,      \* users of the last user_update that was broadcast
  last,              \* the event handled by the last step
  out                \* transport calls the last step made, in order

relayVars == <<activeConnections, offlineMessages, userStatus, conns, now,
               serial, lastUserList, last, out>>

\* src/server.js holds the auth-based relays and the users-map variant,
\* src/unnamed/part_001 the notification server, each a program of its own
VARIABLES
  variant,           \* the program that runs: the presence relay above, the
                     \* JWT, cookie or device variant of the auth relay,
                     \* the users-map variant, or the notification server
  wssClients,        \* wss.clients: the WebSocket objects, by id
  clients,           \* Map ws -> { ..., authenticated: true }, as its key set
  pending,           \* the axios verification requests awaited, by ws
  users,             \* users-map variant: Map username -> ws
  connectedClients,  \* notification server: Map deviceToken -> socket.id,
                     \* in insertion order
  ioSockets,         \* notification server: the sockets accepted, by id
  alast,             \* the event the auth relay handled in the last step
  aout               \* transport calls the auth relay made in the last step

tokenVars == <<connectedClients, ioSockets>>

authVars == <<variant, wssClients, clients, pending, users, alast, aout,
              tokenVars>>

vars == <<relayVars, authVars>>

\* ------------------------------------------------------- Map helpers
Keys(m) == [i \in 1..Len(m) |-> m[i].user]

MapHas(m, u) == \E i \in 1..Len(m) : m[i].user = u

\* Map.get: the ws id, or 0 for undefined
MapGet(m, u) ==
  IF MapHas(m, u) THEN m[CHOOSE i \in 1..Len(m) : m[i].user = u].ws ELSE 0

\* Map.set keeps the position of an existing key and appends a new one
MapSet(m, u, c) ==
  IF MapHas(m, u)
  THEN [i \in 1..Len(m) |-> IF m[i].user = u THEN [user |-> u, ws |-> c] ELSE m[i]]
  ELSE Append(m, [user |-> u, ws |-> c])

MapDelete(m, u) == SelectSeq(m, LAMBDA e : e.user # u)

\* claimed: the `sender` field of an inbound payload, if it has one
Event(kind, c, u, type, receiver, content) ==
  [kind |-> kind, conn |-> c, user |-> u, type |-> type,
   receiver |-> receiver, content |-> content, claimed |-> NoUser]

Send(c, env) == [op |-> "send", to |-> c, env |-> env]

IsOpen(cs, c) == c # 0 /\ cs[c].readyState = "OPEN"

\* ------------------------------------------------------- ws library
\* ws.close(code): starts the closing handshake of an OPEN socket
WsClose(cs, c) ==
  IF cs[c].readyState = "OPEN"
  THEN [cs EXCEPT ![c].readyState = "CLOSING"]
  ELSE cs

WsCloseOut(cs, c, code) ==
  IF cs[c].readyState = "OPEN"
  THEN <<[op |-> "close", to |-> c, code |-> code]>>
  ELSE <<>>

\* ws.terminate(): destroys the socket at once
WsTerminate(cs, c) ==
  IF cs[c].readyState = "CLOSED"
  THEN cs
  ELSE [cs EXCEPT ![c].readyState = "CLOSING", ![c].socket = FALSE]

\* ------------------------------------------------- broadcastUserList
userList(reg) == Keys(reg)

\* seeded fault: the loop stops after the first connection it sent to
broadcastUserListFirst(reg, cs, t) ==
  LET env == [type |-> "user_update", users |-> userList(reg), timestamp |-> t]
      all == [i \in 1..Len(reg) |-> Send(reg[i].ws, env)]
      open == SelectSeq(all, LAMBDA s : IsOpen(cs, s.to))
  IN  IF open = <<>> THEN <<>> ELSE <<open[1]>>

broadcastUserList(reg, cs, t) ==
  LET env == [type |-> "user_update", users |-> userList(reg), timestamp |-> t]
      all == [i \in 1..Len(reg) |-> Send(reg[i].ws, env)]
  IN  SelectSeq(all, LAMBDA s : IsOpen(cs, s.to))

\* --------------------------------------------- deliverQueuedMessages
Fresh(msg, t) == t - msg.timestamp < MESSAGE_EXPIRY

\* seeded fault: the queue is flushed newest first
deliverSendsReversed(username, c, cs, off, t) ==
  IF username \notin DOMAIN off THEN <<>>
  ELSE LET messages == SelectSeq(off[username], LAMBDA msg : Fresh(msg, t))
       IN  IF IsOpen(cs, c)
           THEN [i \in 1..Len(messages) |->
                   Send(c, messages[Len(messages) + 1 - i])]
           ELSE <<>>

deliverSends(username, c, cs, off, t) ==
  IF username \notin DOMAIN off THEN <<>>
  ELSE LET messages == SelectSeq(off[username], LAMBDA msg : Fresh(msg, t))
       IN  IF IsOpen(cs, c)
           THEN [i \in 1..Len(messages) |-> Send(c, messages[i])]
           ELSE <<>>

\* seeded fault: what remains is stored back even when nothing remains
deliverStoreKeepsKey(username, off, t) ==
  IF username \notin DOMAIN off THEN off
  ELSE [off EXCEPT ![username] =
          SelectSeq(off[username], LAMBDA msg : ~Fresh(msg, t))]

\* seeded fault: the store is not updated after the flush
deliverStoreKeepsAll(username, off, t) == off

deliverStore(username, off, t) ==
  IF username \notin DOMAIN off THEN off
  ELSE LET remainingMessages ==
             SelectSeq(off[username], LAMBDA msg : ~Fresh(msg, t))
       IN  IF Len(remainingMessages) > 0
           THEN [off EXCEPT ![username] = remainingMessages]
           ELSE [u \in DOMAIN off \ {username} |-> off[u]]

\* ------------------------------------------------------------- Init
AuthInit ==
  /\ wssClients = <<>>
  /\ clients = {}
  /\ pending = <<>>
  /\ users = <<>>
  /\ connectedClients = <<>>
  /\ ioSockets = <<>>
  /\ alast = [kind |-> "init", ws |-> 0, answer |-> ""]
  /\ aout = <<>>

Init ==
  /\ variant = "presence"
  /\ AuthInit
  /\ activeConnections = <<>>
  /\ offlineMessages = <<>>
  /\ userStatus = <<>>
  /\ conns = <<>>
  /\ now = 1
  /\ serial = 0
  /\ lastUserList = <<>>
  /\ last = Event("init", 0, NoUser, "", NoUser, NoContent)
  /\ out = <<>>

\* ----------------------------------------- wss.on('connection', ...)
NewWs(u) ==
  [user |-> u, readyState |-> "OPEN", socket |-> TRUE, isAlive |-> TRUE,
   timer |-> TRUE]

\* seeded fault: the username is not validated
RejectedNever(username) == FALSE

\* !username: null (no such parameter) and the empty string are falsy
Rejected(username) == username = NoUser

\* a connect without a username: closed with 4001, no handler installed
ConnectRejected(username) ==
  /\ Rejected(username)
  /\ last' = Event("connect", 0, NoUser, "", NoUser, NoContent)
  /\ out' = <<[op |-> "close", to |-> 0, code |-> 4001]>>
  /\ UNCHANGED <<activeConnections, offlineMessages, userStatus, conns, now,
                 serial, lastUserList>>

\* seeded fault: the mailbox is flushed before the presence publish
ConnectOutFlushFirst(dup, publish, flush) == dup \o flush \o publish

\* the transport calls of the connect handler, in program order: close of
\* the duplicate (l.58), broadcastUserList (l.69), deliverQueuedMessages
\* (l.72)
ConnectOut(dup, publish, flush) == dup \o publish \o flush

Connect(username) ==
  /\ ~Rejected(username)
  /\ Len(conns) < MaxConns
  /\ LET ws    == Len(conns) + 1
         old   == MapGet(activeConnections, username)
         cs1   == IF old # 0 THEN WsClose(conns, old) ELSE conns
         dup   == IF old # 0 THEN WsCloseOut(conns, old, 4002) ELSE <<>>
         cs2   == Append(cs1, NewWs(username))
         reg   == MapSet(activeConnections, username, ws)
     IN  /\ activeConnections' = reg
         /\ userStatus' =
              [u \in DOMAIN userStatus \cup {username} |->
                 IF u = username
                 THEN [lastSeen |-> Null, status |-> "online"]
                 ELSE userStatus[u]]
         /\ lastUserList' = userList(reg)
         /\ offlineMessages' = deliverStore(username, offlineMessages, now)
         /\ conns' = cs2
         /\ out' = ConnectOut(dup, broadcastUserList(reg, cs2, now),
                              deliverSends(username, ws, cs2, offlineMessages,
                                           now))
         /\ last' = Event("connect", ws, username, "", NoUser, NoContent)
  /\ UNCHANGED <<now, serial>>

\* ------------------------------------------------- handleDisconnect
handleDisconnectReg(reg, username) ==
  IF MapGet(reg, username) # 0 THEN MapDelete(reg, username) ELSE reg

\* seeded fault: the status is rewritten without looking at the registry
handleDisconnectStatusAlways(reg, st, username, t) ==
  [u \in DOMAIN st \cup {username} |->
     IF u = username THEN [lastSeen |-> t, status |-> "offline"] ELSE st[u]]

handleDisconnectStatus(reg, st, username, t) ==
  IF MapGet(reg, username) # 0
  THEN [u \in DOMAIN st \cup {username} |->
          IF u = username
          THEN [lastSeen |-> t, status |-> "offline"]
          ELSE st[u]]
  ELSE st

handleDisconnect(cs, username) ==
  /\ activeConnections' = handleDisconnectReg(activeConnections, username)
  /\ userStatus' =
       handleDisconnectStatus(activeConnections, userStatus, username, now)
  /\ IF MapGet(activeConnections, username) # 0
     THEN /\ lastUserList' = userList(activeConnections')
          /\ out' = broadcastUserList(activeConnections', cs, now)
     ELSE /\ lastUserList' = lastUserList
          /\ out' = <<>>

\* ws.on('close'): the socket is gone, readyState is CLOSED
CloseEvent(c) ==
  /\ conns[c].readyState # "CLOSED"
  /\ conns' = [conns EXCEPT ![c].readyState = "CLOSED", ![c].socket = FALSE]
  /\ handleDisconnect(conns', conns[c].user)
  /\ last' = Event("close", c, conns[c].user, "", NoUser, NoContent)
  /\ UNCHANGED <<offlineMessages, now, serial>>

\* ws.on('error'): the socket failed; its 'close' event follows later
ErrorEvent(c) ==
  /\ conns[c].readyState = "OPEN"
  /\ conns' = [conns EXCEPT ![c].readyState = "CLOSING", ![c].socket = FALSE]
  /\ handleDisconnect(conns', conns[c].user)
  /\ last' = Event("error", c, conns[c].user, "", NoUser, NoContent)
  /\ UNCHANGED <<offlineMessages, now, serial>>

\* ---------------------------------------------------- handleMessage
\* a frame can arrive while the socket is up: also during the closing
\* handshake that ws.close started, not after terminate or an error
CanReceive(c) ==
  /\ conns[c].socket
  /\ conns[c].readyState # "CLOSED"

handlePing(username, t) ==
  LET ws == MapGet(activeConnections, username)
  IN  IF IsOpen(conns, ws)
      THEN <<Send(ws, [type |-> "pong", timestamp |-> t])>>
      ELSE <<>>

ChatMessage(sender, receiver, content, t) ==
  [type |-> "message", sender |-> sender, receiver |-> receiver,
   content |-> content, timestamp |-> t]

\* seeded fault: only the receiver is validated
InvalidReceiverOnly(receiver, content) == receiver = NoUser

Invalid(receiver, content) == receiver = NoUser \/ content = NoContent

\* seeded fault: unshift instead of push
EnqueueFirst(off, receiver, message) ==
  [u \in DOMAIN off \cup {receiver} |->
     IF u = receiver
     THEN <<message>> \o (IF receiver \in DOMAIN off THEN off[receiver] ELSE <<>>)
     ELSE off[u]]

Enqueue(off, receiver, message) ==
  [u \in DOMAIN off \cup {receiver} |->
     IF u = receiver
     THEN Append(IF receiver \in DOMAIN off THEN off[receiver] ELSE <<>>,
                 message)
     ELSE off[u]]

handleChatMessageOut(sender, receiver, content, t) ==
  LET receiverWs == MapGet(activeConnections, receiver)
  IN  IF ~Invalid(receiver, content) /\ IsOpen(conns, receiverWs)
      THEN <<Send(receiverWs, ChatMessage(sender, receiver, content, t))>>
      ELSE <<>>

\* seeded fault: the return after the immediate send is missing
handleChatMessageStoreAlways(sender, receiver, content, t) ==
  IF Invalid(receiver, content)
  THEN offlineMessages
  ELSE Enqueue(offlineMessages, receiver,
               ChatMessage(sender, receiver, content, t))

handleChatMessageStore(sender, receiver, content, t) ==
  LET receiverWs == MapGet(activeConnections, receiver)
  IN  IF Invalid(receiver, content) \/ IsOpen(conns, receiverWs)
      THEN offlineMessages
      ELSE Enqueue(offlineMessages, receiver,
                   ChatMessage(sender, receiver, content, t))

\* seeded fault: the relay believes the payload's sender field
SenderOfPayload(c, claimed) ==
  IF claimed # NoUser THEN claimed ELSE conns[c].user

\* ws.on('message', (message) => handleMessage(username, message)): the
\* sender is the username of the connect handler's closure (l.47, l.75);
\* handleChatMessage reads only receiver and content of the payload
SenderOf(c, claimed) == conns[c].user

\* type is "ping", "message", another string, or "garbage" for a payload
\* JSON.parse rejects; claimed is the payload's own sender field
MessageWith(c, type, receiver, content, claimed) ==
  /\ CanReceive(c)
  /\ type # "message" => receiver = NoUser /\ content = NoContent
                          /\ claimed = NoUser
  /\ content \in {NoContent, serial + 1}
  /\ serial' = IF type = "message" /\ ~Invalid(receiver, content)
                THEN serial + 1 ELSE serial
  /\ serial' <= MaxMsgs
  /\ LET sender == SenderOf(c, claimed)
     IN  /\ out' = CASE type = "ping" -> handlePing(sender, now)
                     [] type = "message" ->
                          handleChatMessageOut(sender, receiver, content, now)
                     [] OTHER -> <<>>
         /\ offlineMessages' =
              IF type = "message"
              THEN handleChatMessageStore(sender, receiver, content, now)
              ELSE offlineMessages
         /\ last' = [Event("message", c, sender, type, receiver, content)
                       EXCEPT !.claimed = claimed]
  /\ UNCHANGED <<activeConnections, userStatus, conns, now, lastUserList>>

\* a payload without a sender field of its own
Message(c, type, receiver, content) ==
  MessageWith(c, type, receiver, content, NoUser)

\* -------------------------------------------- setupConnectionTimeout
\* seeded fault: the pong handler does nothing
PongConnsIgnored(cs, c) == cs

\* ws.on('pong'): ws.isAlive = true
PongConns(cs, c) == [cs EXCEPT ![c].isAlive = TRUE]

Pong(c) ==
  /\ CanReceive(c)
  /\ conns' = PongConns(conns, c)
  /\ last' = Event("pong", c, conns[c].user, "", NoUser, NoContent)
  /\ out' = <<>>
  /\ UNCHANGED <<activeConnections, offlineMessages, userStatus, now, serial,
                 lastUserList>>

\* seeded fault: the timer only pings and never terminates
TimerTickConnsPingOnly(cs, c) == [cs EXCEPT ![c].isAlive = FALSE]

TimerTickConns(cs, c) ==
  IF ~cs[c].isAlive
  THEN [WsTerminate(cs, c) EXCEPT ![c].timer = FALSE]
  ELSE [cs EXCEPT ![c].isAlive = FALSE]

TimerTickOut(cs, c) ==
  IF ~cs[c].isAlive
  THEN <<[op |-> "terminate", to |-> c]>>
  ELSE IF IsOpen(cs, c) THEN <<[op |-> "ping", to |-> c]>> ELSE <<>>

TimerTick(c) ==
  /\ conns[c].timer
  /\ conns' = TimerTickConns(conns, c)
  /\ out' = TimerTickOut(conns, c)
  /\ last' = Event("timer", c, conns[c].user, "", NoUser, NoContent)
  /\ UNCHANGED <<activeConnections, offlineMessages, userStatus, now, serial,
                 lastUserList>>

\* ---------------------------------------------------- cleanup tasks
\* seeded fault: a queue is judged as a whole, by its oldest entry
CleanMessagesByHead(off, t) ==
  LET keep == {u \in DOMAIN off : Fresh(off[u][1], t)}
  IN  [u \in keep |-> off[u]]

\* seeded fault: the sweep leaves the mailbox alone
CleanMessagesNever(off, t) == off

CleanMessages(off, t) ==
  LET validMessages(u) == SelectSeq(off[u], LAMBDA msg : Fresh(msg, t))
      keep == {u \in DOMAIN off : Len(validMessages(u)) > 0}
  IN  [u \in keep |-> validMessages(u)]

Truthy(lastSeen) == lastSeen # Null /\ lastSeen # 0

\* seeded fault: lastSeen is not tested for null before the subtraction
CleanStatusUnguarded(st, t) ==
  LET old == {u \in DOMAIN st :
                t - (IF st[u].lastSeen = Null THEN 0 ELSE st[u].lastSeen)
                  > MESSAGE_EXPIRY}
  IN  [u \in DOMAIN st \ old |-> st[u]]

CleanStatus(st, t) ==
  LET old == {u \in DOMAIN st :
                Truthy(st[u].lastSeen) /\ t - st[u].lastSeen > MESSAGE_EXPIRY}
  IN  [u \in DOMAIN st \ old |-> st[u]]

Cleanup ==
  /\ offlineMessages' = CleanMessages(offlineMessages, now)
  /\ userStatus' = CleanStatus(userStatus, now)
  /\ last' = Event("cleanup", 0, NoUser, "", NoUser, NoContent)
  /\ out' = <<>>
  /\ UNCHANGED <<activeConnections, conns, now, serial, lastUserList>>

\* global ping interval: every OPEN client of the server is pinged
GlobalPing ==
  /\ out' = SelectSeq([c \in 1..Len(conns) |-> [op |-> "ping", to |-> c]],
                      LAMBDA p : IsOpen(conns, p.to))
  /\ last' = Event("globalping", 0, NoUser, "", NoUser, NoContent)
  /\ UNCHANGED <<activeConnections, offlineMessages, userStatus, conns, now,
                 serial, lastUserList>>

\* ------------------------------------------------------------ clock
Tick ==
  /\ now < MaxTime
  /\ now' = now + 1
  /\ last' = Event("clock", 0, NoUser, "", NoUser, NoContent)
  /\ out' = <<>>
  /\ UNCHANGED <<activeConnections, offlineMessages, userStatus, conns,
                 serial, lastUserList>>

Types == {"ping", "message", "typing", "garbage"}

Next ==
  \/ \E u \in Users \cup {NoUser} : ConnectRejected(u) /\ UNCHANGED authVars
  \/ \E u \in Users \cup {NoUser} : Connect(u) /\ UNCHANGED authVars
  \/ \E c \in 1..Len(conns) : CloseEvent(c) /\ UNCHANGED authVars
  \/ \E c \in 1..Len(conns) : ErrorEvent(c) /\ UNCHANGED authVars
  \/ \E c \in 1..Len(conns), type \in Types,
        receiver \in Users \cup {NoUser}, content \in 0..MaxMsgs :
        Message(c, type, receiver, content) /\ UNCHANGED authVars
  \/ \E c \in 1..Len(conns) : Pong(c) /\ UNCHANGED authVars
  \/ \E c \in 1..Len(conns) : TimerTick(c) /\ UNCHANGED authVars
  \/ Cleanup /\ UNCHANGED authVars
  \/ GlobalPing /\ UNCHANGED authVars
  \/ Tick /\ UNCHANGED authVars

Spec == Init /\ [][Next]_vars

\* the clock advances, and the cleanup interval (setInterval, l.219-241)
\* keeps firing for as long as the process runs
LiveSpec ==
  /\ Spec
  /\ WF_vars(Tick /\ UNCHANGED authVars)
  /\ WF_vars(Cleanup /\ UNCHANGED authVars)

\* ------------------------------------------------- a send that throws
\* None of the handlers of 'connection', 'close' and 'error' has a try
\* block and the program installs no uncaughtException handler: an
\* exception thrown by ws.send inside broadcastUserList or
\* deliverQueuedMessages leaves the loop and the handler and ends the
\* process.  (handleMessage has a try block; the sends of handlePing and
\* handleChatMessage are inside it.)  A crashed process takes no step.
Running == last.kind # "crash"

\* the first k-1 sends went out and the k-th threw
ThrowAt(sends, k) ==
  Append(SubSeq(sends, 1, k - 1), [op |-> "throw", to |-> sends[k].to])

\* the connect handler, ws.send throwing inside broadcastUserList (l.69)
ConnectThrowsInPublish(username, k) ==
  /\ ~Rejected(username)
  /\ Len(conns) < MaxConns
  /\ LET ws    == Len(conns) + 1
         old   == MapGet(activeConnections, username)
         cs1   == IF old # 0 THEN WsClose(conns, old) ELSE conns
         dup   == IF old # 0 THEN WsCloseOut(conns, old, 4002) ELSE <<>>
         cs2   == Append(cs1, NewWs(username))
         reg   == MapSet(activeConnections, username, ws)
         sends == broadcastUserList(reg, cs2, now)
     IN  /\ k \in 1..Len(sends)
         /\ activeConnections' = reg
         /\ userStatus' =
              [u \in DOMAIN userStatus \cup {username} |->
                 IF u = username
                 THEN [lastSeen |-> Null, status |-> "online"]
                 ELSE userStatus[u]]
         /\ lastUserList' = userList(reg)
         /\ conns' = cs2
         /\ out' = dup \o ThrowAt(sends, k)
         /\ last' = Event("crash", ws, username, "", NoUser, NoContent)
  /\ UNCHANGED <<offlineMessages, now, serial>>

\* the connect handler, ws.send throwing inside deliverQueuedMessages
\* (l.95-99): the store is not updated (l.101-109 is not reached)
ConnectThrowsInFlush(username, k) ==
  /\ ~Rejected(username)
  /\ Len(conns) < MaxConns
  /\ LET ws    == Len(conns) + 1
         old   == MapGet(activeConnections, username)
         cs1   == IF old # 0 THEN WsClose(conns, old) ELSE conns
         dup   == IF old # 0 THEN WsCloseOut(conns, old, 4002) ELSE <<>>
         cs2   == Append(cs1, NewWs(username))
         reg   == MapSet(activeConnections, username, ws)
         sends == deliverSends(username, ws, cs2, offlineMessages, now)
     IN  /\ k \in 1..Len(sends)
         /\ activeConnections' = reg
         /\ userStatus' =
              [u \in DOMAIN userStatus \cup {username} |->
                 IF u = username
                 THEN [lastSeen |-> Null, status |-> "online"]
                 ELSE userStatus[u]]
         /\ lastUserList' = userList(reg)
         /\ conns' = cs2
         /\ out' = dup \o broadcastUserList(reg, cs2, now) \o ThrowAt(sends, k)
         /\ last' = Event("crash", ws, username, "", NoUser, NoContent)
  /\ UNCHANGED <<offlineMessages, now, serial>>

\* the close handler, ws.send throwing inside broadcastUserList (l.176)
CloseThrowsInPublish(c, k) ==
  /\ conns[c].readyState # "CLOSED"
  /\ MapGet(activeConnections, conns[c].user) # 0
  /\ conns' = [conns EXCEPT ![c].readyState = "CLOSED", ![c].socket = FALSE]
  /\ LET reg   == handleDisconnectReg(activeConnections, conns[c].user)
         sends == broadcastUserList(reg, conns', now)
     IN  /\ k \in 1..Len(sends)
         /\ activeConnections' = reg
         /\ userStatus' = handleDisconnectStatus(activeConnections, userStatus,
                                                 conns[c].user, now)
         /\ lastUserList' = userList(reg)
         /\ out' = ThrowAt(sends, k)
  /\ last' = Event("crash", c, conns[c].user, "", NoUser, NoContent)
  /\ UNCHANGED <<offlineMessages, now, serial>>

NextThrow ==
  \/ Running /\ Next
  \/ \E u \in Users, k \in 1..MaxConns :
        Running /\ ConnectThrowsInPublish(u, k) /\ UNCHANGED authVars
  \/ \E u \in Users, k \in 1..MaxMsgs :
        Running /\ ConnectThrowsInFlush(u, k) /\ UNCHANGED authVars
  \/ \E c \in 1..Len(conns), k \in 1..MaxConns :
        Running /\ CloseThrowsInPublish(c, k) /\ UNCHANGED authVars

SpecThrow == Init /\ [][NextThrow]_vars

\* ------------------------------------------- auth relays (server.js)
\* Three variants of one relay: a connection sends {type: 'auth'}, the
\* relay asks the Flask collaborator (await axios.post) and registers the
\* connection in `clients` on a valid answer.  The handler is async: the
\* part before the await and the part after it are two steps, and other
\* events are handled in between.  ws.send to a socket that is not OPEN
\* sends nothing.
AuthVariants == {"jwt", "cookie", "device"}

Answers == {"valid", "invalid", "unavailable"}

AEvent(kind, ws, answer) == [kind |-> kind, ws |-> ws, answer |-> answer]

AuthResponseEnv(success) == [type |-> "auth_response", success |-> success]

SendIfOpen(cs, ws, env) ==
  IF cs[ws].readyState = "OPEN" THEN <<Send(ws, env)>> ELSE <<>>

CloseIfOpen(cs, ws) ==
  IF cs[ws].readyState = "OPEN" THEN <<[op |-> "close", to |-> ws]>> ELSE <<>>

\* broadcast(message, exclude): every OPEN client but `exclude`
broadcast(cs, env, exclude) ==
  SelectSeq([c \in 1..Len(cs) |-> Send(c, env)],
            LAMBDA e : e.to # exclude /\ cs[e.to].readyState = "OPEN")

AuthConnect ==
  /\ Len(wssClients) < MaxSockets
  /\ wssClients' = Append(wssClients, [readyState |-> "OPEN"])
  /\ alast' = AEvent("connect", Len(wssClients) + 1, "")
  /\ aout' = <<>>
  /\ UNCHANGED <<variant, clients, pending, users>>
  /\ UNCHANGED tokenVars

\* {type: 'auth'} arrives: the part of the handler before the await.
\* Only the JWT variant checks a token first.
AuthMessage(ws, tokenOk) ==
  /\ wssClients[ws].readyState # "CLOSED"
  /\ IF variant = "jwt" /\ ~tokenOk
     THEN /\ aout' = SendIfOpen(wssClients, ws, AuthResponseEnv(FALSE))
                       \o CloseIfOpen(wssClients, ws)
          /\ wssClients' = WsClose(wssClients, ws)
          /\ alast' = AEvent("auth", ws, "badtoken")
          /\ UNCHANGED pending
     ELSE /\ Len(pending) < MaxPending
          /\ pending' = Append(pending, ws)
          /\ aout' = <<>>
          /\ alast' = AEvent("auth", ws, "")
          /\ UNCHANGED wssClients
  /\ UNCHANGED <<variant, clients, users>>
  /\ UNCHANGED tokenVars

\* what the handler sends once the collaborator answered
VerifiedOut(ws, answer) ==
  LET yes == SendIfOpen(wssClients, ws, AuthResponseEnv(TRUE))
      no  == SendIfOpen(wssClients, ws, AuthResponseEnv(FALSE))
  IN  CASE variant = "jwt" /\ answer = "valid" ->
             \* `userId` is not declared: building the user_joined message
             \* throws a ReferenceError, caught by the catch of l.157
             yes \o no
        [] variant = "jwt" /\ answer # "valid" -> no
        [] variant = "cookie" /\ answer = "valid" -> yes
        [] variant = "cookie" /\ answer # "valid" ->
             no \o CloseIfOpen(wssClients, ws)
        [] variant = "device" /\ answer = "valid" ->
             yes \o broadcast(wssClients, [type |-> "user_joined"], ws)
        [] variant = "device" /\ answer = "invalid" -> no
        [] variant = "device" /\ answer = "unavailable" ->
             \* the await is outside any inner try: the outer catch answers
             SendIfOpen(wssClients, ws, [type |-> "error"])

\* the collaborator answered the i-th request in flight: the part of the
\* handler after the await
AuthVerified(i, answer) ==
  /\ i \in 1..Len(pending)
  /\ LET ws == pending[i]
     IN  /\ clients' = IF answer = "valid" THEN clients \cup {ws} ELSE clients
         /\ aout' = VerifiedOut(ws, answer)
         /\ wssClients' = IF variant = "cookie" /\ answer # "valid"
                          THEN WsClose(wssClients, ws)
                          ELSE wssClients
         /\ alast' = AEvent("response", ws, answer)
  /\ pending' = SubSeq(pending, 1, i - 1) \o SubSeq(pending, i + 1, Len(pending))
  /\ UNCHANGED <<variant, users>>
  /\ UNCHANGED tokenVars

\* ws.on('close')
AuthClose(ws) ==
  /\ wssClients[ws].readyState # "CLOSED"
  /\ wssClients' = [wssClients EXCEPT ![ws].readyState = "CLOSED"]
  /\ clients' = clients \ {ws}
  /\ aout' = IF variant # "cookie" /\ ws \in clients
             THEN broadcast(wssClients', [type |-> "user_left"], 0)
             ELSE <<>>
  /\ alast' = AEvent("close", ws, "")
  /\ UNCHANGED <<variant, pending, users>>
  /\ UNCHANGED tokenVars

InitAuth ==
  /\ variant \in AuthVariants
  /\ AuthInit
  /\ activeConnections = <<>>
  /\ offlineMessages = <<>>
  /\ userStatus = <<>>
  /\ conns = <<>>
  /\ now = 1
  /\ serial = 0
  /\ lastUserList = <<>>
  /\ last = Event("init", 0, NoUser, "", NoUser, NoContent)
  /\ out = <<>>

NextAuth ==
  \/ AuthConnect /\ UNCHANGED relayVars
  \/ \E ws \in 1..Len(wssClients), tokenOk \in BOOLEAN :
        AuthMessage(ws, tokenOk) /\ UNCHANGED relayVars
  \/ \E i \in 1..MaxPending, answer \in Answers :
        AuthVerified(i, answer) /\ UNCHANGED relayVars
  \/ \E ws \in 1..Len(wssClients) : AuthClose(ws) /\ UNCHANGED relayVars

SpecAuth == InitAuth /\ [][NextAuth]_vars

\* ------------------------------- users-map variant (server.js l.241-312)
\* A relay without mailbox: `users` maps a username to its WebSocket, a
\* chat message is sent to the receiver's socket or dropped.  A connect
\* under a name already in use replaces the map entry and leaves the old
\* socket open; a close deletes the entry by name.
UsersWs(u) == [readyState |-> "OPEN", user |-> u]

usersBroadcast(reg, cs) ==
  LET env == [type |-> "user_update", users |-> Keys(reg)]
      all == [i \in 1..Len(reg) |-> Send(reg[i].ws, env)]
  IN  SelectSeq(all, LAMBDA e : cs[e.to].readyState = "OPEN")

UsersConnect(username) ==
  /\ Len(wssClients) < MaxSockets
  /\ IF Rejected(username)
     THEN /\ aout' = <<[op |-> "close", to |-> 0]>>
          /\ alast' = AEvent("connect", 0, "")
          /\ UNCHANGED <<wssClients, users>>
     ELSE /\ wssClients' = Append(wssClients, UsersWs(username))
          /\ users' = MapSet(users, username, Len(wssClients) + 1)
          /\ aout' = usersBroadcast(users', wssClients')
          /\ alast' = AEvent("connect", Len(wssClients) + 1, "")
  /\ UNCHANGED <<variant, clients, pending>>
  /\ UNCHANGED tokenVars

\* seeded fault: the variant believes the payload's sender field
UsersSenderOfPayload(ws, claimed) ==
  IF claimed # NoUser THEN claimed ELSE wssClients[ws].user

\* sender: username, the const of the connect handler's closure (l.257)
UsersSenderOf(ws, claimed) == wssClients[ws].user

\* ws.on('message') (l.269-286); a send to a socket that is not OPEN
\* delivers nothing
UsersMessage(ws, type, receiver, content, claimed) ==
  /\ wssClients[ws].readyState # "CLOSED"
  /\ type # "message" => receiver = NoUser /\ content = NoContent
                          /\ claimed = NoUser
  /\ LET receiverWs == MapGet(users, receiver)
     IN  aout' =
           IF type = "message" /\ ~Invalid(receiver, content) /\ receiverWs # 0
           THEN SendIfOpen(wssClients, receiverWs,
                           [type |-> "message",
                            sender |-> UsersSenderOf(ws, claimed),
                            receiver |-> receiver, content |-> content])
           ELSE <<>>
  /\ alast' = [kind |-> "message", ws |-> ws, answer |-> "",
               claimed |-> claimed]
  /\ UNCHANGED <<variant, wssClients, clients, pending, users>>
  /\ UNCHANGED tokenVars

\* ws.on('close') (l.289-292)
UsersClose(ws) ==
  /\ wssClients[ws].readyState # "CLOSED"
  /\ wssClients' = [wssClients EXCEPT ![ws].readyState = "CLOSED"]
  /\ users' = MapDelete(users, wssClients[ws].user)
  /\ aout' = usersBroadcast(users', wssClients')
  /\ alast' = AEvent("close", ws, "")
  /\ UNCHANGED <<variant, clients, pending>>
  /\ UNCHANGED tokenVars

\* the two relays that route chat messages, with payloads that may carry a
\* sender field of their own
InitSender ==
  /\ variant \in {"presence", "users"}
  /\ AuthInit
  /\ activeConnections = <<>>
  /\ offlineMessages = <<>>
  /\ userStatus = <<>>
  /\ conns = <<>>
  /\ now = 1
  /\ serial = 0
  /\ lastUserList = <<>>
  /\ last = Event("init", 0, NoUser, "", NoUser, NoContent)
  /\ out = <<>>

NextSender ==
  \/ variant = "presence" /\ Next
  \/ \E c \in 1..Len(conns), receiver \in Users \cup {NoUser},
        content \in 0..MaxMsgs, claimed \in Users :
        /\ variant = "presence"
        /\ MessageWith(c, "message", receiver, content, claimed)
        /\ UNCHANGED authVars
  \/ \E u \in Users \cup {NoUser} :
        variant = "users" /\ UsersConnect(u) /\ UNCHANGED relayVars
  \/ \E ws \in 1..Len(wssClients), type \in Types,
        receiver \in Users \cup {NoUser}, content \in 0..MaxMsgs,
        claimed \in Users \cup {NoUser} :
        /\ variant = "users"
        /\ UsersMessage(ws, type, receiver, content, claimed)
        /\ UNCHANGED relayVars
  \/ \E ws \in 1..Len(wssClients) :
        variant = "users" /\ UsersClose(ws) /\ UNCHANGED relayVars

SpecSender == InitSender /\ [][NextSender]_vars

\* ------------------------- notification server (src/unnamed/part_001)
\* socket.io server: a socket registers device tokens, connectedClients
\* maps each token to the id of the socket that registered it last.
Tokens == {"t1", "t2"}

TokHas(m, tok) == \E i \in 1..Len(m) : m[i].token = tok

\* Map.set keeps the position of an existing key and appends a new one
TokSet(m, tok, id) ==
  IF TokHas(m, tok)
  THEN [i \in 1..Len(m) |->
          IF m[i].token = tok THEN [token |-> tok, id |-> id] ELSE m[i]]
  ELSE Append(m, [token |-> tok, id |-> id])

\* for (...) { if (socketId === socket.id) { delete; break; } }: the first
\* entry of the socket, in insertion order, is deleted and the loop ends
RemoveFirst(m, id) ==
  IF \E i \in 1..Len(m) : m[i].id = id
  THEN LET k == CHOOSE i \in 1..Len(m) :
                  m[i].id = id /\ \A j \in 1..(i - 1) : m[j].id # id
       IN  SubSeq(m, 1, k - 1) \o SubSeq(m, k + 1, Len(m))
  ELSE m

IoConnect ==
  /\ Len(ioSockets) < MaxIoSockets
  /\ ioSockets' = Append(ioSockets, [connected |-> TRUE])
  /\ alast' = AEvent("connection", Len(ioSockets) + 1, "")
  /\ aout' = <<>>
  /\ UNCHANGED <<variant, wssClients, clients, pending, users,
                 connectedClients>>

\* socket.on('register', deviceToken)
Register(s, deviceToken) ==
  /\ ioSockets[s].connected
  /\ connectedClients' = TokSet(connectedClients, deviceToken, s)
  /\ alast' = AEvent("register", s, deviceToken)
  /\ aout' = <<[op |-> "emit", to |-> s, event |-> "registration_success"]>>
  /\ UNCHANGED <<variant, wssClients, clients, pending, users, ioSockets>>

\* socket.on('disconnect')
IoDisconnect(s) ==
  /\ ioSockets[s].connected
  /\ ioSockets' = [ioSockets EXCEPT ![s].connected = FALSE]
  /\ connectedClients' = RemoveFirst(connectedClients, s)
  /\ alast' = AEvent("disconnect", s, "")
  /\ aout' = <<>>
  /\ UNCHANGED <<variant, wssClients, clients, pending, users>>

\* GET /status: reports connectedClients.size, changes nothing
Status ==
  /\ alast' = AEvent("status", 0, "")
  /\ aout' = <<[op |-> "json", connectedClients |-> Len(connectedClients)]>>
  /\ UNCHANGED <<variant, wssClients, clients, pending, users, tokenVars>>

InitTokens ==
  /\ variant = "notification"
  /\ AuthInit
  /\ activeConnections = <<>>
  /\ offlineMessages = <<>>
  /\ userStatus = <<>>
  /\ conns = <<>>
  /\ now = 1
  /\ serial = 0
  /\ lastUserList = <<>>
  /\ last = Event("init", 0, NoUser, "", NoUser, NoContent)
  /\ out = <<>>

NextTokens ==
  \/ IoConnect /\ UNCHANGED relayVars
  \/ \E s \in 1..Len(ioSockets), deviceToken \in Tokens :
        Register(s, deviceToken) /\ UNCHANGED relayVars
  \/ \E s \in 1..Len(ioSockets) : IoDisconnect(s) /\ UNCHANGED relayVars
  \/ Status /\ UNCHANGED relayVars

SpecTokens == InitTokens /\ [][NextTokens]_vars

\* ====================================================== properties
ConnIds == 1..Len(conns)

\* number of entries the Presence Set holds for identity u
Entries(reg, u) == Cardinality({i \in 1..Len(reg) : reg[i].user = u})

\* the step from the unprimed to the primed state handles the close or
\* error event of connection c
Disconnects(c) ==
  /\ c \in ConnIds
  /\ last'.kind \in {"close", "error"}
  /\ last'.conn = c
  /\ conns'[c].readyState # conns[c].readyState

\* C1: the close or error event of a connection c of identity U, handled
\* after a newer connection c' was registered for U, is a no-op: the
\* registry still maps U to c', U stays online and nothing is published.
C1_StaleUnregisterIsNoOp ==
  [][\A c \in ConnIds :
       (/\ Disconnects(c)
        /\ MapGet(activeConnections, conns[c].user) \notin {0, c})
       => /\ activeConnections' = activeConnections
          /\ userStatus' = userStatus
          /\ lastUserList' = lastUserList
          /\ out' = <<>>]_vars

\* C2: after identity U connected while registered (the evicted connection
\* c1 is closing with its socket still up, the new one c2 is registered
\* and OPEN), every step that leaves c2 OPEN leaves exactly one entry for
\* U in the Presence Set, the step that handles c1's close event included.
EvictedBy(c1, c2) ==
  /\ c1 < c2
  /\ conns[c1].user = conns[c2].user
  /\ conns[c1].readyState = "CLOSING"
  /\ conns[c1].socket
  /\ MapGet(activeConnections, conns[c2].user) = c2
  /\ conns[c2].readyState = "OPEN"

C2_DuplicateSessionKeepsOneEntry ==
  [][\A c1, c2 \in ConnIds :
       (EvictedBy(c1, c2) /\ conns'[c2].readyState = "OPEN")
       => Entries(activeConnections', conns[c2].user) = 1]_vars

\* the last step handled a well-formed chat message
Routed ==
  /\ last.kind = "message"
  /\ last.type = "message"
  /\ last.receiver # NoUser
  /\ last.content # NoContent

RoutedEnvelope ==
  [type |-> "message", sender |-> last.user, receiver |-> last.receiver,
   content |-> last.content, timestamp |-> now]

Queue(off, u) == IF u \in DOMAIN off THEN off[u] ELSE <<>>

InQueue(off, u, env) == \E i \in 1..Len(Queue(off, u)) : Queue(off, u)[i] = env

\* C3 as stated: a message to a receiver that is registered is sent to the
\* receiver's connection exactly once and creates no mailbox entry.
C3_RegisteredReceiverGetsItNow ==
  (Routed /\ MapHas(activeConnections, last.receiver))
  => /\ out = <<Send(MapGet(activeConnections, last.receiver), RoutedEnvelope)>>
     /\ ~InQueue(offlineMessages, last.receiver, RoutedEnvelope)

\* C3 amended: a message to a receiver that is registered with an OPEN
\* connection is sent to that connection exactly once, as the only transport
\* call of the step, and creates no mailbox entry.
C3_OpenReceiverGetsItNow ==
  (Routed /\ IsOpen(conns, MapGet(activeConnections, last.receiver)))
  => /\ out = <<Send(MapGet(activeConnections, last.receiver), RoutedEnvelope)>>
     /\ ~InQueue(offlineMessages, last.receiver, RoutedEnvelope)

C3_Witness ==
  /\ Routed
  /\ last.user # last.receiver
  /\ IsOpen(conns, MapGet(activeConnections, last.receiver))
  /\ Len(out) = 1

\* the chat envelopes a step sent to connection c, in the order sent
QueuedSends(o, c) ==
  LET sends == SelectSeq(o, LAMBDA e : e.op = "send" /\ e.to = c
                                        /\ e.env.type = "message")
  IN  [i \in 1..Len(sends) |-> sends[i].env]

\* an entry enqueued at env.timestamp is inside the expiry window at time t
InWindow(env, t) ==
  env.timestamp <= t /\ t < env.timestamp + MESSAGE_EXPIRY

WindowPart(q, t) == SelectSeq(q, LAMBDA env : InWindow(env, t))

\* the step handles a well-formed chat message addressed to identity u
RoutesTo(u) == serial' = serial + 1 /\ last'.receiver = u

\* the step handles the connect of a new connection of identity u
Connects(u) == Len(conns') = Len(conns) + 1 /\ last'.user = u

\* C4: a message sent to an identity B that is not registered is appended
\* to B's queue; until B connects no step removes or reorders the entries
\* that are still inside the expiry window; and the connect of B sends to
\* the new connection exactly the entries inside the window, in enqueue
\* order, and none that is at or beyond it.
C4_QueuedThenDeliveredInOrder ==
  [][\A B \in Users :
       LET q == Queue(offlineMessages, B)
       IN  /\ (RoutesTo(B) /\ ~MapHas(activeConnections, B))
              => Queue(offlineMessages', B) =
                   Append(q, [type |-> "message", sender |-> last'.user,
                              receiver |-> B, content |-> last'.content,
                              timestamp |-> now])
           /\ Connects(B)
              => QueuedSends(out', last'.conn) = WindowPart(q, now)
           /\ (~RoutesTo(B) /\ ~Connects(B))
              => WindowPart(Queue(offlineMessages', B), now') =
                   WindowPart(q, now')]_vars

C4_Witness ==
  /\ last.kind = "connect"
  /\ Len(QueuedSends(out, last.conn)) = 2
  /\ QueuedSends(out, last.conn)[1].content = 1
  /\ QueuedSends(out, last.conn)[1].timestamp < now

\* C5: after the drain of a connect the mailbox holds no entry for the
\* identity that connected.
C5_DrainLeavesNoEntry ==
  (last.kind = "connect" /\ last.user # NoUser)
  => last.user \notin DOMAIN offlineMessages

\* C6: at every drain each entry of the queue is judged by its own
\* timestamp: it is sent if and only if it is inside the expiry window;
\* what a drain sends is inside the window and what it leaves is not; and a
\* sweep removes no entry that is inside the window, however often it runs.
C6_ExpiryPerEntry ==
  /\ [](last.kind = "connect" /\ last.user # NoUser
         => /\ \A i \in 1..Len(QueuedSends(out, last.conn)) :
                 InWindow(QueuedSends(out, last.conn)[i], now)
            /\ \A i \in 1..Len(Queue(offlineMessages, last.user)) :
                 ~InWindow(Queue(offlineMessages, last.user)[i], now))
  /\ [][\A B \in Users :
          LET q == Queue(offlineMessages, B)
          IN  /\ Connects(B)
                 => \A i \in 1..Len(q) :
                      InWindow(q[i], now)
                      <=> \E j \in 1..Len(QueuedSends(out', last'.conn)) :
                            QueuedSends(out', last'.conn)[j] = q[i]
              /\ last'.kind = "cleanup"
                 => \A i \in 1..Len(q) :
                      InWindow(q[i], now)
                      => InQueue(offlineMessages', B, q[i])]_vars

\* a drain of a partly expired queue: one entry sent, one not
C6_Witness ==
  /\ last.kind = "connect"
  /\ Len(QueuedSends(out, last.conn)) = 1
  /\ Len(Queue(offlineMessages, last.user)) = 1

\* C7: once the close of a connection has been handled its heartbeat
\* timer never fires again: no timer step acts on a CLOSED connection.
C7_NoTimerAfterClose ==
  last.kind = "timer" => conns[last.conn].readyState # "CLOSED"

\* the step is a firing of the heartbeat timer of connection c
TimerFires(c) ==
  /\ c \in ConnIds
  /\ last'.kind = "timer"
  /\ last'.conn = c

\* C8: a connection starts ALIVE; a monitor tick that finds it ALIVE makes
\* it SUSPECT (and pings it while OPEN); only a pong of that connection
\* makes it ALIVE again; the tick that finds it SUSPECT terminates it and
\* stops the timer; and once its close event is handled its identity is
\* absent from the registry and from the published user list.
C8_SilentConnectionEvicted ==
  [][\A c \in 1..Len(conns') :
       /\ c \notin ConnIds => conns'[c].isAlive /\ conns'[c].timer
       /\ (TimerFires(c) /\ conns[c].isAlive)
          => /\ ~conns'[c].isAlive /\ conns'[c].timer
             /\ conns[c].readyState = "OPEN"
                => out' = <<[op |-> "ping", to |-> c]>>
       /\ (TimerFires(c) /\ ~conns[c].isAlive)
          => /\ out' = <<[op |-> "terminate", to |-> c]>>
             /\ conns'[c].readyState # "OPEN"
             /\ ~conns'[c].socket
             /\ ~conns'[c].timer
       /\ (c \in ConnIds /\ ~conns[c].isAlive /\ conns'[c].isAlive)
          => last'.kind = "pong" /\ last'.conn = c
       /\ (c \in ConnIds /\ ~conns[c].timer /\ last'.kind = "close"
           /\ last'.conn = c /\ conns[c].readyState # "CLOSED")
          => /\ ~MapHas(activeConnections', conns[c].user)
             /\ \A i \in 1..Len(lastUserList') :
                  lastUserList'[i] # conns[c].user]_vars

\* the close event of a connection the monitor terminated was handled
\* while that connection was the registered one
C8_Witness ==
  /\ last.kind = "close"
  /\ ~conns[last.conn].timer
  /\ userStatus[last.user].status = "offline"
  /\ userStatus[last.user].lastSeen = now
  /\ Len(out) = 1

\* C9: when the send of a chat message to the registered receiver fails
\* (the receiver's connection reports the error right after the send) the
\* message is in the receiver's mailbox.
C9_FailedSendIsEnqueued ==
  [][\A c \in ConnIds :
       (/\ Routed
        /\ out = <<Send(c, RoutedEnvelope)>>
        /\ last'.kind = "error"
        /\ last'.conn = c
        /\ conns'[c].readyState # conns[c].readyState)
       => InQueue(offlineMessages', last.receiver, RoutedEnvelope)]_vars

\* C10: the last published user list is the current Presence Set, and every
\* step that changes the registry sends a user_update carrying exactly the
\* registry's identities to every registered OPEN connection.
PresenceUpdate(reg, t) ==
  [type |-> "user_update", users |-> Keys(reg), timestamp |-> t]

C10_PresencePublished ==
  /\ [](lastUserList = Keys(activeConnections))
  /\ [][activeConnections' # activeConnections
        => \A i \in 1..Len(activeConnections') :
             IsOpen(conns', activeConnections'[i].ws)
             => \E j \in 1..Len(out') :
                  out'[j] = Send(activeConnections'[i].ws,
                                 PresenceUpdate(activeConnections', now'))]_vars

\* an unregistration was published to the connection that remains
C10_Witness ==
  /\ last.kind \in {"close", "error"}
  /\ Len(activeConnections) = 1
  /\ out = <<Send(activeConnections[1].ws,
                  PresenceUpdate(activeConnections, now))>>

\* C11: unregistering is idempotent.  The first disconnect event handled
\* for a connection leaves its identity without registry entry; a second
\* one handled right after it (the close event after the error event), and
\* any disconnect event that finds the identity unregistered, changes neither
\* registry, user status, mailbox nor published list and sends nothing.
C11_UnregisterIdempotent ==
  [][\A c \in ConnIds :
       /\ Disconnects(c) => ~MapHas(activeConnections', conns[c].user)
       /\ (/\ Disconnects(c)
           /\ \/ last.kind \in {"close", "error"} /\ last.conn = c
              \/ ~MapHas(activeConnections, conns[c].user))
          => /\ activeConnections' = activeConnections
             /\ userStatus' = userStatus
             /\ offlineMessages' = offlineMessages
             /\ lastUserList' = lastUserList
             /\ out' = <<>>]_vars

\* the close event of a connection whose error event had unregistered its
\* identity earlier (the identity never had another connection), handled
\* while another identity is online and would have seen a publication
C11_Witness ==
  /\ last.kind = "close"
  /\ \A d \in ConnIds : d # last.conn => conns[d].user # last.user
  /\ ~MapHas(activeConnections, last.user)
  /\ userStatus[last.user].status = "offline"
  /\ userStatus[last.user].lastSeen < now
  /\ \E d \in ConnIds : IsOpen(conns, d)
  /\ out = <<>>

\* C12: a connect without identity (absent or empty username) is closed at
\* once with code 4001 and changes neither registry, user status, mailbox
\* nor published list; and no registry entry ever has the empty identity
\* as its key.
C12_NoIdentityRejected ==
  /\ [](\A i \in 1..Len(activeConnections) :
          activeConnections[i].user # NoUser)
  /\ [][(last'.kind = "connect" /\ last'.user = NoUser)
        => /\ out' = <<[op |-> "close", to |-> 0, code |-> 4001]>>
           /\ activeConnections' = activeConnections
           /\ userStatus' = userStatus
           /\ offlineMessages' = offlineMessages
           /\ lastUserList' = lastUserList
           /\ conns' = conns]_vars

\* a rejected connect while an identity is online and a mailbox is in use
C12_Witness ==
  /\ last.kind = "connect"
  /\ last.user = NoUser
  /\ out = <<[op |-> "close", to |-> 0, code |-> 4001]>>
  /\ Len(activeConnections) > 0
  /\ DOMAIN offlineMessages # {}

\* the last step handled a payload that does not parse, or a chat message
\* without receiver or without content
Malformed ==
  /\ last.kind = "message"
  /\ \/ last.type = "garbage"
     \/ last.type = "message" /\ (last.receiver = NoUser \/ last.content = NoContent)

\* C13: a malformed payload is answered with an error envelope sent to the
\* connection it came from, and that connection stays as it was.
C13_MalformedGetsError ==
  Malformed
  => /\ \E i \in 1..Len(out) :
          /\ out[i].op = "send"
          /\ out[i].to = last.conn
          /\ out[i].env.type = "error"
     /\ conns[last.conn].readyState \in {"OPEN", "CLOSING"}

\* C14: a ping frame handled for a connection that is OPEN is answered with
\* exactly one pong, sent to that connection and to no other, and the step
\* changes neither registry, mailbox nor published list.
C14_PingAnsweredToSender ==
  [][(/\ last'.kind = "message"
      /\ last'.type = "ping"
      /\ conns'[last'.conn].readyState = "OPEN")
     => /\ out' = <<Send(last'.conn, [type |-> "pong", timestamp |-> now'])>>
        /\ activeConnections' = activeConnections
        /\ offlineMessages' = offlineMessages
        /\ userStatus' = userStatus
        /\ lastUserList' = lastUserList]_vars

\* C15: when a send throws during the presence publish or during the
\* mailbox flush of a connect, the relay keeps running and every
\* registered OPEN connection other than the failing one has been sent the
\* user_update of that step.
C15_SendFailureContained ==
  \A i \in 1..Len(out) :
    out[i].op = "throw"
    => /\ Running
       /\ \A j \in 1..Len(activeConnections) :
            (/\ IsOpen(conns, activeConnections[j].ws)
             /\ activeConnections[j].ws # out[i].to)
            => \E n \in 1..Len(out) :
                 out[n] = Send(activeConnections[j].ws,
                               PresenceUpdate(activeConnections, now))

AuthFailures == {"badtoken", "invalid", "unavailable"}

\* C16: in every auth variant, a failed authentication of an OPEN connection
\* (bad token, collaborator answers not valid, collaborator unavailable)
\* does not add the connection to `clients`, sends it an auth_response
\* with success = false and then closes it; and a connection enters
\* `clients` only in the step that handles a valid answer for it.
C16_AuthFailureRefusedAndClosed ==
  [][\A ws \in 1..Len(wssClients) :
       /\ (/\ alast'.ws = ws
           /\ alast'.answer \in AuthFailures
           /\ wssClients[ws].readyState = "OPEN")
          => /\ clients' = clients
             /\ aout' = <<Send(ws, AuthResponseEnv(FALSE)),
                          [op |-> "close", to |-> ws]>>
             /\ wssClients'[ws].readyState # "OPEN"
       /\ (ws \in clients' /\ ws \notin clients)
          => alast' = AEvent("response", ws, "valid")]_vars

\* a is b with some entries left out, the others in the order of b
\* (entries are told apart by their content)
IsSubSeq(a, b) ==
  a = SelectSeq(b, LAMBDA e : \E i \in 1..Len(a) : a[i] = e)

\* q is in enqueue order: the k-th well-formed message carries content k
InEnqueueOrder(q) ==
  \A i, j \in 1..Len(q) : i < j => q[i].content < q[j].content

\* C17: FIFO per identity under any interleaving of enqueues, sweeps and
\* drains.  Every queue holds only entries addressed to its identity, in
\* enqueue order; an enqueue appends; every other step, a sweep included,
\* leaves a subsequence of the queue; and what the drain of a connect
\* sends is a subsequence of the queue of the identity that connected.
C17_FifoPerIdentity ==
  /\ [](\A u \in DOMAIN offlineMessages :
          /\ InEnqueueOrder(offlineMessages[u])
          /\ \A i \in 1..Len(offlineMessages[u]) :
               offlineMessages[u][i].receiver = u)
  /\ [][\A B \in Users :
          LET q  == Queue(offlineMessages, B)
              q2 == Queue(offlineMessages', B)
          IN  /\ RoutesTo(B) => q = SubSeq(q2, 1, Len(q))
              /\ ~RoutesTo(B) => IsSubSeq(q2, q)
              /\ Connects(B)
                 => /\ IsSubSeq(QueuedSends(out', last'.conn), q)
                    /\ InEnqueueOrder(QueuedSends(out', last'.conn))
                    /\ \A i \in 1..Len(out') :
                         (out'[i].op = "send" /\ out'[i].env.type = "message")
                         => out'[i].env.receiver = B /\ out'[i].to = last'.conn]_vars

\* a drain sent two entries that were enqueued at different times
C17_Witness ==
  /\ last.kind = "connect"
  /\ Len(QueuedSends(out, last.conn)) = 2
  /\ QueuedSends(out, last.conn)[1].timestamp
       < QueuedSends(out, last.conn)[2].timestamp

\* every entry of every queue of the mailbox
Stored(off) == UNION {{off[u][i] : i \in 1..Len(off[u])} : u \in DOMAIN off}

Terminates(o, c) == \E i \in 1..Len(o) : o[i] = [op |-> "terminate", to |-> c]

\* C19: a connection that answers every heartbeat before the next monitor
\* tick is never terminated by the monitor.  Every pong leaves the
\* connection ALIVE, whether it was SUSPECT or ALIVE; a connection becomes
\* SUSPECT only by a tick of its own timer; a tick that finds it ALIVE
\* does not terminate it; and terminate is issued only by a tick of the
\* connection's timer that finds it SUSPECT.
C19_ResponsiveNeverTerminated ==
  [][\A c \in ConnIds :
       /\ (last'.kind = "pong" /\ last'.conn = c) => conns'[c].isAlive
       /\ (conns[c].isAlive /\ ~conns'[c].isAlive) => TimerFires(c)
       /\ (TimerFires(c) /\ conns[c].isAlive)
          => /\ ~Terminates(out', c)
             /\ conns'[c].readyState = conns[c].readyState
             /\ conns'[c].socket = conns[c].socket
       /\ Terminates(out', c) => TimerFires(c) /\ ~conns[c].isAlive]_vars

\* a pong was handled for an OPEN connection while the heartbeat timer of
\* another connection had already made that one SUSPECT
C19_Witness ==
  /\ last.kind = "pong"
  /\ IsOpen(conns, last.conn)
  /\ conns[last.conn].isAlive
  /\ conns[last.conn].timer
  /\ \E d \in ConnIds : d # last.conn /\ ~conns[d].isAlive

\* the mailbox holds the entry with content k
Holds(k) == \E env \in Stored(offlineMessages) : env.content = k

\* it holds that entry, enqueued early enough for its expiry to fall
\* inside the run of the clock
HoldsOld(k) ==
  \E env \in Stored(offlineMessages) :
    env.content = k /\ env.timestamp + MESSAGE_EXPIRY <= MaxTime

\* C20: every mailbox entry is eventually destroyed.  While the clock and
\* the periodic sweep make progress, an entry whose expiry the clock
\* reaches is eventually out of the mailbox, by a drain or by the sweep,
\* whether or not its identity ever connects; and no entry at or beyond the
\* expiry window is in the mailbox after a sweep.
C20_EntryEventuallyDestroyed ==
  /\ \A k \in 1..MaxMsgs : HoldsOld(k) ~> ~Holds(k)
  /\ [][last'.kind = "cleanup"
        => \A env \in Stored(offlineMessages') : InWindow(env, now')]_vars

\* an expired entry waits in the mailbox of an identity that never
\* connected
C20_Witness ==
  \E u \in Users :
    /\ \A c \in ConnIds : conns[c].user # u
    /\ \E i \in 1..Len(Queue(offlineMessages, u)) :
         ~InWindow(Queue(offlineMessages, u)[i], now)

\* the step handles a payload the relay ignores: one that does not parse,
\* an envelope of unknown type, or a chat message without receiver or
\* without content
Ignores ==
  /\ last'.kind = "message"
  /\ \/ last'.type \notin {"ping", "message"}
     \/ /\ last'.type = "message"
        /\ (last'.receiver = NoUser \/ last'.content = NoContent)

\* C21: handling an ignored payload changes neither registry, user status,
\* mailbox nor published list, sends nothing to any connection, and leaves
\* every connection, the sender's included, as it was.
C21_IgnoredPayloadNoEffect ==
  [][Ignores
     => /\ activeConnections' = activeConnections
        /\ userStatus' = userStatus
        /\ offlineMessages' = offlineMessages
        /\ lastUserList' = lastUserList
        /\ conns' = conns
        /\ serial' = serial
        /\ out' = <<>>]_vars

\* a chat message without content, addressed to an identity that is online
\* on another connection, was handled: nothing was sent
C21_Witness ==
  /\ last.kind = "message"
  /\ last.type = "message"
  /\ last.receiver # NoUser
  /\ last.receiver # last.user
  /\ last.content = NoContent
  /\ IsOpen(conns, MapGet(activeConnections, last.receiver))
  /\ MapGet(activeConnections, last.user) = last.conn
  /\ out = <<>>

\* positions in o of the user_update sent to c, and of the chat messages
\* sent to c
UpdatesTo(o, c) ==
  {i \in 1..Len(o) : o[i].op = "send" /\ o[i].to = c
                       /\ o[i].env.type = "user_update"}

MessagesTo(o, c) ==
  {i \in 1..Len(o) : o[i].op = "send" /\ o[i].to = c
                       /\ o[i].env.type = "message"}

\* C22: the connect of identity U is one step that, in this order, closes
\* the prior connection of U with code 4002 (if it is still OPEN), installs
\* the new connection in the registry, publishes the user list and flushes
\* the mailbox: the close is the first transport call, the new connection
\* is the registered one, it is sent exactly one user_update, which lists
\* U, and every queued message it is sent comes after that user_update.
C22_ConnectOrder ==
  [][\A U \in Users :
       Connects(U)
       => LET ws  == last'.conn
              old == MapGet(activeConnections, U)
          IN  /\ ws = Len(conns')
              /\ IsOpen(conns, old)
                 => /\ out'[1] = [op |-> "close", to |-> old, code |-> 4002]
                    /\ conns'[old].readyState = "CLOSING"
                    /\ \A i \in 1..Len(out') : out'[i].op = "send"
                                                 => out'[i].to # old
              /\ MapGet(activeConnections', U) = ws
              /\ Entries(activeConnections', U) = 1
              /\ Cardinality(UpdatesTo(out', ws)) = 1
              /\ \A i \in UpdatesTo(out', ws) :
                   /\ \E n \in 1..Len(out'[i].env.users) :
                        out'[i].env.users[n] = U
                   /\ \A j \in MessagesTo(out', ws) : i < j
                   /\ \A j \in 1..Len(out') : out'[j].op = "close" => j < i]_vars

\* a connect that published to two connections and then flushed a queued
\* message to the new one
C22_Witness ==
  /\ last.kind = "connect"
  /\ Len(out) = 3
  /\ out[2] = Send(last.conn, PresenceUpdate(activeConnections, now))
  /\ out[3].op = "send"
  /\ out[3].to = last.conn
  /\ out[3].env.type = "message"

\* C23: the sender of a relayed envelope cannot be forged.  The identity of
\* a connection is bound when it connects and never changes; every chat
\* envelope a message step sends, and every entry it puts into the
\* mailbox, carries that identity of the connection the payload arrived on
\* as sender, whatever sender field the payload had; any other step sends
\* only envelopes taken unchanged from the mailbox; this holds for the
\* presence relay and for the users-map variant.
C23_SenderNotForgeable ==
  /\ [](last.kind = "message"
         => \A i \in 1..Len(out) :
              (out[i].op = "send" /\ out[i].env.type = "message")
              => out[i].env.sender = conns[last.conn].user)
  /\ [](alast.kind = "message"
         => \A i \in 1..Len(aout) :
              (aout[i].op = "send" /\ aout[i].env.type = "message")
              => aout[i].env.sender = wssClients[alast.ws].user)
  /\ [][/\ \A env \in Stored(offlineMessages') \ Stored(offlineMessages) :
              last'.kind = "message" /\ env.sender = conns[last'.conn].user
         /\ last'.kind # "message"
            => \A i \in 1..Len(out') :
                 (out'[i].op = "send" /\ out'[i].env.type = "message")
                 => out'[i].env \in Stored(offlineMessages)
         /\ \A c \in ConnIds : conns'[c].user = conns[c].user
         /\ \A ws \in 1..Len(wssClients) :
              wssClients'[ws].user = wssClients[ws].user]_vars

\* the presence relay delivered a payload that names another identity as
\* its sender, under the identity of the connection it arrived on
C23_Witness ==
  /\ last.kind = "message"
  /\ last.claimed \notin {NoUser, conns[last.conn].user}
  /\ Len(out) = 1
  /\ out[1].env.type = "message"
  /\ out[1].env.sender = conns[last.conn].user

\* C24: registry and user status agree in every state.  An identity is a
\* key of the registry if and only if its status entry is online with
\* lastSeen null; an identity with a status entry that is not registered
\* is offline with a lastSeen that is a time of the clock; and the cleanup
\* leaves the status of every registered identity in place.
C24_RegistryStatusConsistent ==
  /\ [](\A u \in Users \cup {NoUser} :
          /\ MapHas(activeConnections, u)
             <=> /\ u \in DOMAIN userStatus
                 /\ userStatus[u].status = "online"
                 /\ userStatus[u].lastSeen = Null
          /\ (u \in DOMAIN userStatus /\ ~MapHas(activeConnections, u))
             => /\ userStatus[u].status = "offline"
                /\ userStatus[u].lastSeen \in 1..now)
  /\ [][last'.kind = "cleanup"
        => \A u \in Users :
             MapHas(activeConnections, u)
             => u \in DOMAIN userStatus' /\ userStatus'[u] = userStatus[u]]_vars

\* the cleanup ran at the end of the clock while one identity was
\* registered and another had gone offline at the start of the clock
C24_Witness ==
  /\ last.kind = "cleanup"
  /\ now = MaxTime
  /\ \E u, v \in Users :
       /\ MapHas(activeConnections, u)
       /\ userStatus[u].lastSeen = Null
       /\ v \in DOMAIN userStatus
       /\ userStatus[v].status = "offline"
       /\ userStatus[v].lastSeen = 1

\* C25: the mailbox never holds an empty queue: in every state every key
\* of offlineMessages maps to a list with at least one entry.
C25_NoEmptyQueue ==
  \A u \in DOMAIN offlineMessages : Len(offlineMessages[u]) > 0

\* a drain delivered a whole queue of two entries and the mailbox has no
\* key left
C25_Witness ==
  /\ last.kind = "connect"
  /\ Len(QueuedSends(out, last.conn)) = 2
  /\ DOMAIN offlineMessages = {}

\* C26: once the disconnect of a socket has been handled, no entry of
\* connectedClients maps a device token to that socket's id, whatever
\* registers the socket sent: the map references connected sockets only.
C26_NoEntryForDisconnectedSocket ==
  \A i \in 1..Len(connectedClients) :
    ioSockets[connectedClients[i].id].connected

=============================================================================
